---- MODULE Spec2Model ----
(***************************************************************************)
(* Financial summary aggregation and tokenized report download of the     *)
(* CrusherMate backend: the in-memory downloadTokens table of the report  *)
(* controller, the handlers that issue and redeem download tokens, and    *)
(* TruckEntry.getSummaryByDateRange, which the handlers call.             *)
(*                                                                         *)
(* Time is in milliseconds.  A calendar day d is the date string the      *)
(* client sends; new Date(d) is the instant 2*d (midnight) and            *)
(* new Date(d + 'T23:59:59.999Z') is the instant 2*d+1, so a record dated *)
(* during day d has entryDate 2*d+1 and one dated at midnight has 2*d.    *)
(***************************************************************************)
EXTENDS Integers, Sequences, FiniteSets, TLC

VARIABLES now,            \* the wall clock read by new Date()
          downloadTokens, \* the Map of the report controller: token -> entry
          issued,         \* the token strings uuidv4() has returned so far
          req,            \* the HTTP requests in flight, one per slot
          store,          \* the Record Store: truck entries, expenses, users
          sent,           \* history: per token, the number of files sent for it
          origin          \* history: per token, the request that issued it

vars == <<now, downloadTokens, issued, req, store, sent, origin>>

----------------------------------------------------------------------------
(* Bounds of the model *)

MaxReq == 2
MaxTokens == 2
MaxTicks == 2
TickMs == 300000

Slots == 1..MaxReq
Tokens == 1..MaxTokens
(* the strings a download request can carry: 0 is one uuidv4 never returns *)
TokenStrings == 0..MaxTokens

(* The cleanup threshold of downloadWithToken *)
TTL == 5 * 60 * 1000

----------------------------------------------------------------------------
(* Values *)

(* A missing (undefined) date string or number *)
Missing == 0

(* An organization id as a request carries it: a string (JWT payload, JSON *)
(* body) or an ObjectId (a populated document).                            *)
OrgStr(o) == [id |-> o, type |-> "string"]
OrgOid(o) == [id |-> o, type |-> "ObjectId"]
NoOrg == [id |-> 0, type |-> "undefined"]

(* A user id in a filter: req.user.id is a string, the dashboard builds an *)
(* ObjectId from it                                                        *)
UserStr(u) == [id |-> u, type |-> "string"]
UserOid(u) == [id |-> u, type |-> "ObjectId"]
NoUser == [id |-> "", type |-> "undefined"]

Midnight(d) == 2 * d
EndOfDay(d) == 2 * d + 1
IsoDay(instant) == instant \div 2

InitStore ==
  [ trucks |->
      { [id |-> "KA01", organization |-> 1, userId |-> "u1", entryType |-> "Sales",
         materialType |-> "M-Sand", units |-> 10, ratePerUnit |-> 22, totalAmount |-> 220,
         entryDate |-> 3, status |-> "active"],
        [id |-> "KA02", organization |-> 1, userId |-> "u1", entryType |-> "Raw Stone",
         materialType |-> "", units |-> 8, ratePerUnit |-> 18, totalAmount |-> 144,
         entryDate |-> 5, status |-> "active"],
        [id |-> "KA03", organization |-> 2, userId |-> "u2", entryType |-> "Sales",
         materialType |-> "Dust", units |-> 5, ratePerUnit |-> 20, totalAmount |-> 100,
         entryDate |-> 3, status |-> "active"],
        [id |-> "KA04", organization |-> 1, userId |-> "u1", entryType |-> "Sales",
         materialType |-> "Dust", units |-> 1, ratePerUnit |-> 9, totalAmount |-> 9,
         entryDate |-> 3, status |-> "deleted"] },
    expenses |->
      { [id |-> "diesel", organization |-> 1, user |-> "u1", amount |-> 5,
         date |-> 5, isActive |-> TRUE],
        [id |-> "tea", organization |-> 2, user |-> "u2", amount |-> 7,
         date |-> 2, isActive |-> TRUE] },
    users |-> [u \in {"u1", "u2"} |-> IF u = "u1" THEN 1 ELSE 2] ]

----------------------------------------------------------------------------
(* Record Store queries *)

(* The sum of the amt fields of a set of [id, amt] records *)
RECURSIVE SumAmt(_)
SumAmt(S) ==
  IF S = {} THEN 0
  ELSE LET x == CHOOSE y \in S : TRUE IN x.amt + SumAmt(S \ {x})

(* Model.find casts the organization of the filter to an ObjectId *)
FindOrgMatch(field, org) == org = NoOrg \/ field = org.id

(* Model.aggregate does not cast: a string never equals a stored ObjectId *)
AggregateOrgMatch(field, org) ==
  org = NoOrg \/ (org.type = "ObjectId" /\ field = org.id)

(* the same two rules for the userId of the filter *)
FindUserMatch(field, user) == user = NoUser \/ field = user.id

AggregateUserMatch(field, user) ==
  user = NoUser \/ (user.type = "ObjectId" /\ field = user.id)

TruckFind(st, f) ==
  { e \in st.trucks : /\ e.status = "active"
                      /\ e.entryDate >= f.from /\ e.entryDate <= f.to
                      /\ FindOrgMatch(e.organization, f.organization)
                      /\ FindUserMatch(e.userId, f.userId) }

TruckAggregateMatch(st, f) ==
  { e \in st.trucks : /\ e.status = "active"
                      /\ e.entryDate >= f.from /\ e.entryDate <= f.to
                      /\ AggregateOrgMatch(e.organization, f.organization)
                      /\ AggregateUserMatch(e.userId, f.userId) }

(* a find that ignores its filter *)
ExpenseFindAll(st, f) == st.expenses

ExpenseFind(st, f) ==
  { x \in st.expenses : /\ x.isActive
                        /\ x.date >= f.from /\ x.date <= f.to
                        /\ FindOrgMatch(x.organization, f.organization) }

ExpenseAggregateMatch(st, f) ==
  { x \in st.expenses : /\ x.isActive
                        /\ x.date >= f.from /\ x.date <= f.to
                        /\ AggregateOrgMatch(x.organization, f.organization) }

----------------------------------------------------------------------------
(* TruckEntry.getSummaryByDateRange, one operator per stage of its code *)

NoSummary ==
  [totalSales |-> 0, totalRawStone |-> 0, totalOtherExpenses |-> 0,
   totalExpenses |-> 0, salesCount |-> 0, rawStoneCount |-> 0,
   otherExpensesCount |-> 0, totalEntries |-> 0, netProfit |-> 0]

(* The filters argument a caller passes: organization and, for the download *)
(* and export handlers, an entryDate range that overrides the default one   *)
Filters(org, hasEntryDate, from, to) ==
  [organization |-> org, userId |-> NoUser,
   hasEntryDate |-> hasEntryDate, from |-> from, to |-> to]

(* filter.userId = ... of the callers that filter by user *)
WithUser(filters, user) == [filters EXCEPT !.userId = user]

(* baseMatch: status, the default range, then ...filters *)
BaseMatch(startDate, endDate, filters) ==
  [organization |-> filters.organization, userId |-> filters.userId,
   from |-> IF filters.hasEntryDate THEN filters.from ELSE Midnight(startDate),
   to |-> IF filters.hasEntryDate THEN filters.to ELSE Midnight(endDate)]

(* otherExpensesQuery: always the default range, organization if present, *)
(* and nothing else of the filters                                        *)
OtherExpensesQuery(startDate, endDate, filters) ==
  [organization |-> filters.organization, userId |-> NoUser,
   from |-> Midnight(startDate), to |-> Midnight(endDate)]

(* $match baseMatch, $group by entryType with $sum of totalAmount and 1 *)
TruckAggregate(st, match) ==
  LET m == TruckAggregateMatch(st, match)
  IN { [type |-> ty,
        totalAmount |->
          SumAmt({ [id |-> e.id, amt |-> e.totalAmount] : e \in { x \in m : x.entryType = ty } }),
        count |-> Cardinality({ x \in m : x.entryType = ty })]
       : ty \in { e.entryType : e \in m } }

(* $match otherExpensesQuery, $group _id null: no group when nothing matches *)
ExpenseAggregate(st, q) ==
  LET m == ExpenseAggregateMatch(st, q)
  IN IF m = {} THEN {}
     ELSE { [totalAmount |-> SumAmt({ [id |-> x.id, amt |-> x.amount] : x \in m }),
             count |-> Cardinality(m)] }

GroupTotal(groups, ty) ==
  IF \E g \in groups : g.type = ty
  THEN (CHOOSE g \in groups : g.type = ty).totalAmount ELSE 0

GroupCount(groups, ty) ==
  IF \E g \in groups : g.type = ty
  THEN (CHOOSE g \in groups : g.type = ty).count ELSE 0

(* profit that leaves the other expenses out *)
CombineGross(sales, raw, other, salesCount, rawCount, otherCount) ==
  [totalSales |-> sales, totalRawStone |-> raw, totalOtherExpenses |-> other,
   totalExpenses |-> raw + other,
   salesCount |-> salesCount, rawStoneCount |-> rawCount,
   otherExpensesCount |-> otherCount,
   totalEntries |-> salesCount + rawCount + otherCount,
   netProfit |-> sales - raw]

(* an entry count that leaves the expenses out *)
CombineTruckCount(sales, raw, other, salesCount, rawCount, otherCount) ==
  [totalSales |-> sales, totalRawStone |-> raw, totalOtherExpenses |-> other,
   totalExpenses |-> raw + other,
   salesCount |-> salesCount, rawStoneCount |-> rawCount,
   otherExpensesCount |-> otherCount,
   totalEntries |-> salesCount + rawCount,
   netProfit |-> sales - (raw + other)]

(* the combination formulas both paths end with *)
Combine(sales, raw, other, salesCount, rawCount, otherCount) ==
  [totalSales |-> sales, totalRawStone |-> raw, totalOtherExpenses |-> other,
   totalExpenses |-> raw + other,
   salesCount |-> salesCount, rawStoneCount |-> rawCount,
   otherExpensesCount |-> otherCount,
   totalEntries |-> salesCount + rawCount + otherCount,
   netProfit |-> sales - (raw + other)]

(* a summary that drops the expenses *)
FormatSummaryTrucksOnly(groups, expAgg) ==
  Combine(GroupTotal(groups, "Sales"), GroupTotal(groups, "Raw Stone"), 0,
          GroupCount(groups, "Sales"), GroupCount(groups, "Raw Stone"), 0)

(* "Format the summary" *)
FormatSummary(groups, expAgg) ==
  Combine(GroupTotal(groups, "Sales"), GroupTotal(groups, "Raw Stone"),
          IF expAgg = {} THEN 0 ELSE (CHOOSE g \in expAgg : TRUE).totalAmount,
          GroupCount(groups, "Sales"), GroupCount(groups, "Raw Stone"),
          IF expAgg = {} THEN 0 ELSE (CHOOSE g \in expAgg : TRUE).count)

(* a fallback decided by the sales total alone *)
NeedsFallbackSalesOnly(result) == result.totalSales = 0

NeedsFallback(result) == result.totalSales = 0 /\ result.totalRawStone = 0

(* the stored field alone *)
ManualAmountStored(e) == e.totalAmount

(* entry.totalAmount || entry.units * entry.ratePerUnit *)
ManualAmount(e) ==
  IF e.totalAmount # 0 THEN e.totalAmount ELSE e.units * e.ratePerUnit

(* the manual recomputation over the records the two finds returned *)
ManualSummary(entries, otherExpenses) ==
  LET ofType(ty) == { e \in entries : e.entryType = ty }
      amts(S) == { [id |-> e.id, amt |-> ManualAmount(e)] : e \in S }
  IN Combine(SumAmt(amts(ofType("Sales"))), SumAmt(amts(ofType("Raw Stone"))),
             SumAmt({ [id |-> x.id, amt |-> x.amount] : x \in otherExpenses }),
             Cardinality(ofType("Sales")), Cardinality(ofType("Raw Stone")),
             Cardinality(otherExpenses))

(* the whole call against a store that does not change while it runs *)
SummaryOf(st, startDate, endDate, filters) ==
  LET match == BaseMatch(startDate, endDate, filters)
      query == OtherExpensesQuery(startDate, endDate, filters)
      result == FormatSummary(TruckAggregate(st, match), ExpenseAggregate(st, query))
  IN IF NeedsFallback(result)
     THEN ManualSummary(TruckFind(st, match), ExpenseFind(st, query))
     ELSE result

(* Math.round(x * 100) / 100.  The quantities of the model are whole *)
(* numbers, which rounding to the hundredth leaves as they are       *)
Round2(x) == (x * 100) \div 100

(* the pre-save hook of the truck entry schema *)
PreSave(doc) ==
  IF doc.units # Missing /\ doc.ratePerUnit # Missing
  THEN [doc EXCEPT !.totalAmount = Round2(doc.units * doc.ratePerUnit)]
  ELSE doc

(* the document TruckEntry.create stores: the fields of the request, the *)
(* defaults of the schema, then the pre-save hook                        *)
NewTruck(id, org, userId, entryType, materialType, units, ratePerUnit, entryDate) ==
  PreSave([id |-> id, organization |-> org, userId |-> userId,
           entryType |-> entryType, materialType |-> materialType,
           units |-> units, ratePerUnit |-> ratePerUnit, totalAmount |-> Missing,
           entryDate |-> entryDate, status |-> "active"])

----------------------------------------------------------------------------
(* The flat export rows of downloadWithToken *)

NotApplicable == -1

TruckRow(e) ==
  [date |-> IsoDay(e.entryDate), truckNumber |-> e.id, entryType |-> e.entryType,
   materialType |-> IF e.materialType = "" THEN "N/A" ELSE e.materialType,
   units |-> e.units, ratePerUnit |-> e.ratePerUnit,
   totalAmount |-> e.totalAmount]

ExpenseRow(x) ==
  [date |-> IsoDay(x.date), truckNumber |-> "N/A", entryType |-> "Expense",
   materialType |-> x.id, units |-> NotApplicable, ratePerUnit |-> NotApplicable,
   totalAmount |-> x.amount]

AllEntries(entries, otherExpenses) ==
  { TruckRow(e) : e \in entries } \cup { ExpenseRow(x) : x \in otherExpenses }

(* the rows of generateExportData: no truckName, and two more columns *)
ExportTruckRow(e) ==
  [date |-> IsoDay(e.entryDate), truckNumber |-> e.id, entryType |-> e.entryType,
   materialType |-> IF e.materialType = "" THEN "N/A" ELSE e.materialType,
   units |-> e.units, ratePerUnit |-> e.ratePerUnit,
   totalAmount |-> e.totalAmount, description |-> "", type |-> "truck_entry"]

ExportExpenseRow(x) ==
  [date |-> IsoDay(x.date), truckNumber |-> "N/A", entryType |-> "Expense",
   materialType |-> x.id, units |-> NotApplicable, ratePerUnit |-> NotApplicable,
   totalAmount |-> x.amount, description |-> "", type |-> "other_expense"]

ExportAllEntries(entries, otherExpenses) ==
  { ExportTruckRow(e) : e \in entries }
    \cup { ExportExpenseRow(x) : x \in otherExpenses }

----------------------------------------------------------------------------
(* The downloadTokens Map *)

NoData ==
  [userId |-> "", organization |-> NoOrg, startDate |-> Missing,
   endDate |-> Missing, format |-> "", createdAt |-> 0]

(* a generator that hands out the same string again *)
uuidRepeated(used) == CHOOSE t \in Tokens : \A u \in Tokens : t <= u

(* uuidv4(): a string no earlier call has returned *)
uuidv4(used) == CHOOSE t \in Tokens \ used : \A u \in Tokens \ used : t <= u

(* downloadTokens.get(token): undefined when the key is absent *)
MapGet(tbl, token) == IF token \in DOMAIN tbl THEN tbl[token] ELSE NoData

(* downloadTokens.set(token, entry) *)
MapSet(tbl, token, entry) ==
  [k \in DOMAIN tbl \cup {token} |-> IF k = token THEN entry ELSE tbl[k]]

(* downloadTokens.delete(token) *)
MapDelete(tbl, token) == [k \in DOMAIN tbl \ {token} |-> tbl[k]]

(* a cleanup that empties the table *)
CleanUpAll(tbl, t) == [k \in {} |-> NoData]

(* the cleanup loop: delete every entry with now - createdAt > 5 minutes *)
CleanUp(tbl, t) ==
  [k \in { x \in DOMAIN tbl : ~(t - tbl[x].createdAt > TTL) } |-> tbl[k]]

(* the cleanup loop moved above the lookup *)
TableCleanedBeforeGet(tbl, token, t) == CleanUp(tbl, t)

(* the table after the first lines of downloadWithToken: the throw for an *)
(* absent token comes before the cleanup loop                              *)
TableAfterGet(tbl, token, t) ==
  IF MapGet(tbl, token) = NoData THEN tbl ELSE CleanUp(tbl, t)

(* the final delete left out *)
TableAfterSendKept(tbl, token) == tbl

(* "Clean up the token after successful download" *)
TableAfterSend(tbl, token) == MapDelete(tbl, token)

(* the entry an issue operation stores *)
TokenEntry(userId, org, body, t) ==
  [userId |-> userId, organization |-> org, startDate |-> body.startDate,
   endDate |-> body.endDate, format |-> body.format, createdAt |-> t]

(* the organization taken from the request when it carries one *)
ReportOrganizationFromQuery(downloadData, queryOrg) ==
  IF queryOrg # NoOrg THEN queryOrg ELSE downloadData.organization

(* the organization downloadWithToken filters by *)
ReportOrganization(downloadData, queryOrg) == downloadData.organization

(* filter of downloadWithToken in the revision that signs its tokens: the *)
(* range ends at new Date(endDate); decoded.userId and downloadData.userId *)
(* are both req.user.id of the issuer, so no userId is added               *)
JwtFilter(downloadData) ==
  Filters(downloadData.organization, TRUE,
          Midnight(downloadData.startDate), Midnight(downloadData.endDate))

(* filter and otherExpensesFilter of downloadWithToken *)
DownloadFilter(downloadData, queryOrg) ==
  Filters(ReportOrganization(downloadData, queryOrg), TRUE,
          Midnight(downloadData.startDate), EndOfDay(downloadData.endDate))

----------------------------------------------------------------------------
(* Requests in flight.  A slot holds one request from its arrival to its  *)
(* response; pc names the Record Store call the handler is suspended on.  *)

NoToken == -1
NoFile == [format |-> "", rows |-> {}, summary |-> NoSummary]

(* no document loaded *)
NoDoc ==
  [id |-> "", organization |-> Missing, userId |-> "", entryType |-> "",
   materialType |-> "", units |-> Missing, ratePerUnit |-> Missing,
   totalAmount |-> Missing, entryDate |-> Missing, status |-> ""]

NoSession == [id |-> "", role |-> "", organizationId |-> NoOrg]

(* req.body of a write: a field the client left out is Missing or ""; *)
(* totalAmount is a field a client may send and no handler reads      *)
NoBody ==
  [entryType |-> "", units |-> Missing, ratePerUnit |-> Missing,
   totalAmount |-> Missing]

(* the locals of a write handler: req.user, req.params.id, req.body, the *)
(* document in memory and the document as the store returned it          *)
NoWrite ==
  [session |-> NoSession, target |-> "", body |-> NoBody, doc |-> NoDoc,
   loaded |-> NoDoc]

IdleReq ==
  [kind |-> "none", pc |-> "idle", token |-> NoToken, data |-> NoData,
   queryOrg |-> NoOrg, authenticated |-> FALSE,
   entries |-> {}, otherExpenses |-> {}, groups |-> {}, manualEntries |-> {},
   summary |-> NoSummary,
   status |-> 0, error |-> "", file |-> NoFile, entriesCount |-> 0,
   queried |-> FALSE, found |-> FALSE, startedAt |-> 0,
   afterSuccess |-> FALSE, neverIssued |-> FALSE,
   filters |-> Filters(NoOrg, FALSE, 0, 0),
   primary |-> NoSummary, rescanned |-> FALSE, returned |-> FALSE,
   write |-> NoWrite, seen |-> {}]

(* the response is written: the handler's locals are gone *)
Respond(rq, status, error, file) ==
  [rq EXCEPT !.pc = "done", !.status = status, !.error = error, !.file = file,
             !.entries = {}, !.otherExpenses = {}, !.groups = {},
             !.manualEntries = {}]

(* the catch block of downloadWithToken: always 500 with error.message *)
DownloadCatch(rq, error) == Respond(rq, 500, error, NoFile)

(* the message of the AppError thrown when downloadTokens.get finds nothing *)
LookupError(token, used) == "Invalid or expired download token"

(* the catch block of the two issue handlers *)
GenerateCatch(rq, error) == Respond(rq, 500, error, NoFile)

IsExpired(entry, t) == t - entry.createdAt > TTL

(* the filters a handler passes to getSummaryByDateRange *)
SummaryFilters(rq) ==
  CASE rq.kind = "download" -> DownloadFilter(rq.data, rq.queryOrg)
    [] rq.kind \in {"summary", "export"} -> rq.filters
    [] rq.kind = "jwt" -> JwtFilter(rq.data)
    [] OTHER -> Filters(rq.data.organization, FALSE, 0, 0)

Init ==
  /\ now = 0
  /\ downloadTokens = [k \in {} |-> NoData]
  /\ issued = {}
  /\ req = [r \in Slots |-> IdleReq]
  /\ store = InitStore
  /\ sent = [t \in TokenStrings |-> 0]
  /\ origin = [k \in {} |-> [authenticated |-> FALSE, sessionOrg |-> NoOrg]]

(* a new request takes the first free slot (slots are interchangeable) *)
FreeSlot(r) ==
  /\ req[r].pc = "idle"
  /\ \A q \in Slots : q < r => req[q].pc # "idle"

(* time passes between two turns of the event loop *)
Tick ==
  /\ now < MaxTicks * TickMs
  /\ now' = now + TickMs
  /\ UNCHANGED <<downloadTokens, issued, req, store, sent, origin>>

(* the response has been delivered and the slot takes the next request *)
Release(r) ==
  /\ req[r].pc = "done"
  /\ req' = [req EXCEPT ![r] = IdleReq]
  /\ UNCHANGED <<now, downloadTokens, issued, store, sent, origin>>

----------------------------------------------------------------------------
(* downloadWithToken *)

(* GET /api/download/:token arrives: the first turn, up to TruckEntry.find *)
StartDownload(r, token, queryOrg) ==
  LET downloadData == MapGet(downloadTokens, token)
      after == TableAfterGet(downloadTokens, token, now)
      rq == [IdleReq EXCEPT
               !.kind = "download", !.token = token, !.queryOrg = queryOrg,
               !.found = (token \in DOMAIN downloadTokens),
               !.startedAt = now,
               !.afterSuccess = (sent[token] > 0),
               !.neverIssued = (token \notin issued)]
  IN /\ FreeSlot(r)
     /\ downloadTokens' = after
     /\ req' = [req EXCEPT ![r] =
                  IF downloadData = NoData
                  THEN DownloadCatch(rq, LookupError(token, issued))
                  ELSE [rq EXCEPT !.pc = "entries", !.data = downloadData,
                                  !.queried = TRUE]]
     /\ UNCHANGED <<now, issued, store, sent, origin>>

(* TruckEntry.find(filter) resolves; OtherExpense.find is issued *)
DownloadEntries(r) ==
  LET rq == req[r]
  IN /\ rq.kind = "download" /\ rq.pc = "entries"
     /\ req' = [req EXCEPT ![r] =
          [rq EXCEPT !.entries = TruckFind(store, DownloadFilter(rq.data, rq.queryOrg)),
                     !.pc = "expenses"]]
     /\ UNCHANGED <<now, downloadTokens, issued, store, sent, origin>>

(* OtherExpense.find(otherExpensesFilter) resolves; getSummaryByDateRange *)
(* is called and issues its truck aggregate                               *)
DownloadExpenses(r) ==
  LET rq == req[r]
  IN /\ rq.kind = "download" /\ rq.pc = "expenses"
     /\ req' = [req EXCEPT ![r] =
          [rq EXCEPT !.otherExpenses =
                        ExpenseFind(store, DownloadFilter(rq.data, rq.queryOrg)),
                     !.pc = "agg"]]
     /\ UNCHANGED <<now, downloadTokens, issued, store, sent, origin>>

(* filter of generateExportData: the organization of the session, the *)
(* range up to the end of the last day, and for everyone but an owner *)
(* the user of the session                                            *)
ExportFilter(session, body) ==
  LET f == Filters(session.organizationId, TRUE,
                   Midnight(body.startDate), EndOfDay(body.endDate))
  IN IF session.role # "owner" THEN WithUser(f, UserStr(session.id)) ELSE f

(* OtherExpense.find(otherExpensesFilter) of generateExportData: the *)
(* filter carries user for everyone but an owner                     *)
ExportExpenseFind(st, f) ==
  { x \in ExpenseFind(st, f) : FindUserMatch(x.user, f.userId) }

(* the catch block of generateExportData *)
ExportCatch(rq, error) == Respond(rq, 500, error, NoFile)

(* the file generateExportData sends *)
ExportFile(rq) ==
  [format |-> rq.data.format,
   rows |-> ExportAllEntries(rq.entries, rq.otherExpenses),
   summary |-> rq.summary]

(* exportData is built: pdf rendering starts, the csv is sent, or any *)
(* other format throws                                                *)
ExportDispatch(rq) ==
  CASE rq.data.format = "pdf" -> [rq EXCEPT !.pc = "pdf"]
    [] rq.data.format = "csv" -> Respond(rq, 200, "", ExportFile(rq))
    [] OTHER -> ExportCatch(rq, "Only PDF and CSV formats are supported")

(* the rows are built; without expense rows the handler first reads every *)
(* active expense for its log                                             *)
ExportAfterSummary(rq) ==
  IF rq.otherExpenses = {} THEN [rq EXCEPT !.pc = "x_diag"] ELSE ExportDispatch(rq)

(* getSummaryByDateRange has returned to its caller, which issues its next *)
(* query, Organization.findById (download) or countDocuments (issue), or   *)
(* answers with the summary (res.json)                                     *)
AfterSummary(rq, result) ==
  LET got == [rq EXCEPT !.summary = result, !.returned = TRUE,
                        !.groups = {}, !.manualEntries = {}]
  IN CASE rq.kind = "download" -> [got EXCEPT !.pc = "org"]
       [] rq.kind = "export" -> ExportAfterSummary(got)
       [] rq.kind = "summary" -> Respond(got, 200, "", NoFile)
       [] rq.kind = "jwt" ->
            IF rq.data.format = "pdf" THEN [got EXCEPT !.pc = "pdf"]
            ELSE DownloadCatch(got, "Only PDF and CSV formats are supported")
       [] OTHER -> [got EXCEPT !.pc = "count"]

(* res.send(file) followed by downloadTokens.delete(token), one turn *)
SendFrom(r, rq) ==
  LET after == TableAfterSend(downloadTokens, rq.token)
  IN /\ downloadTokens' = after
     /\ sent' = [sent EXCEPT ![rq.token] = @ + 1]
     /\ req' = [req EXCEPT ![r] =
          Respond(rq, 200, "",
                  [format |-> rq.data.format,
                   rows |-> AllEntries(rq.entries, rq.otherExpenses),
                   summary |-> rq.summary])]
     /\ UNCHANGED <<now, issued, store, origin>>

(* the caller's turn after the summary: the signing revision sends its csv *)
(* without another await, every other caller goes on as AfterSummary says  *)
SummaryReturn(r, rq, result) ==
  IF rq.kind = "jwt" /\ rq.data.format = "csv"
  THEN SendFrom(r, [rq EXCEPT !.summary = result, !.returned = TRUE])
  ELSE /\ req' = [req EXCEPT ![r] = AfterSummary(rq, result)]
       /\ UNCHANGED <<now, downloadTokens, issued, store, sent, origin>>

(* this.aggregate resolves; OtherExpense.aggregate is issued *)
SummaryAggregate(r) ==
  LET rq == req[r]
  IN /\ rq.pc = "agg"
     /\ req' = [req EXCEPT ![r] =
          [rq EXCEPT !.groups = TruckAggregate(store,
                                   BaseMatch(rq.data.startDate, rq.data.endDate,
                                             SummaryFilters(rq))),
                     !.pc = "aggexp"]]
     /\ UNCHANGED <<now, downloadTokens, issued, store, sent, origin>>

(* OtherExpense.aggregate resolves: the primary result is formatted and is *)
(* returned, or the fallback issues this.find(baseMatch)                   *)
SummaryExpenseAggregate(r) ==
  LET rq == req[r]
      result == FormatSummary(rq.groups,
                  ExpenseAggregate(store,
                    OtherExpensesQuery(rq.data.startDate, rq.data.endDate,
                                       SummaryFilters(rq))))
  IN /\ rq.pc = "aggexp"
     /\ IF NeedsFallback(result)
        THEN /\ req' = [req EXCEPT ![r] =
                  [rq EXCEPT !.summary = result, !.primary = result, !.groups = {},
                             !.rescanned = TRUE, !.pc = "fb_entries"]]
             /\ UNCHANGED <<now, downloadTokens, issued, store, sent, origin>>
        ELSE SummaryReturn(r, [rq EXCEPT !.primary = result], result)

(* the fallback's this.find resolves; OtherExpense.find is issued *)
SummaryFallbackEntries(r) ==
  LET rq == req[r]
  IN /\ rq.pc = "fb_entries"
     /\ req' = [req EXCEPT ![r] =
          [rq EXCEPT !.manualEntries =
                        TruckFind(store, BaseMatch(rq.data.startDate, rq.data.endDate,
                                                   SummaryFilters(rq))),
                     !.pc = "fb_expenses"]]
     /\ UNCHANGED <<now, downloadTokens, issued, store, sent, origin>>

(* the fallback's OtherExpense.find resolves; the manual result replaces *)
(* the primary one and is returned                                       *)
SummaryFallbackExpenses(r) ==
  LET rq == req[r]
      result == ManualSummary(rq.manualEntries,
                  ExpenseFind(store, OtherExpensesQuery(rq.data.startDate,
                                       rq.data.endDate, SummaryFilters(rq))))
  IN /\ rq.pc = "fb_expenses"
     /\ SummaryReturn(r, rq, result)

(* the send of a request suspended in slot r *)
SendFile(r) == SendFrom(r, req[r])

(* Organization.findById resolves or rejects (the rejection is swallowed): *)
(* the rows are built, then pdf rendering starts, the csv is sent, or any  *)
(* other format throws                                                     *)
DownloadOrganization(r) ==
  LET rq == req[r]
  IN /\ rq.kind = "download" /\ rq.pc = "org"
     /\ CASE rq.data.format = "pdf" ->
               /\ req' = [req EXCEPT ![r] = [rq EXCEPT !.pc = "pdf"]]
               /\ UNCHANGED <<downloadTokens, sent>>
               /\ UNCHANGED <<now, issued, store, origin>>
          [] rq.data.format = "csv" -> SendFile(r)
          [] OTHER ->
               /\ req' = [req EXCEPT ![r] =
                    DownloadCatch(rq, "Only PDF and CSV formats are supported")]
               /\ UNCHANGED <<downloadTokens, sent>>
               /\ UNCHANGED <<now, issued, store, origin>>

(* generatePdf resolves *)
DownloadPdf(r) ==
  /\ req[r].kind \in {"download", "jwt"} /\ req[r].pc = "pdf"
  /\ SendFile(r)

(* a Record Store query, or generatePdf, of a download request rejects *)
DownloadQueryFails(r) ==
  LET rq == req[r]
  IN /\ rq.kind \in {"download", "jwt"}
     /\ rq.pc \in {"entries", "expenses", "agg", "aggexp", "fb_entries",
                   "fb_expenses", "pdf"}
     /\ req' = [req EXCEPT ![r] = DownloadCatch(rq, "store error")]
     /\ UNCHANGED <<now, downloadTokens, issued, store, sent, origin>>

----------------------------------------------------------------------------
(* A handler that answers with the summary: GET /api/truck-entries/summary *)
(* and the dashboard                                                       *)

(* the handler calls TruckEntry.getSummaryByDateRange(startDate, endDate,  *)
(* filters), which builds baseMatch and issues its truck aggregate         *)
StartSummary(r, startDate, endDate, filters) ==
  /\ FreeSlot(r)
  /\ req' = [req EXCEPT ![r] =
       [IdleReq EXCEPT !.kind = "summary", !.authenticated = TRUE,
                       !.startedAt = now, !.filters = filters,
                       !.seen = {store},
                       !.data = [NoData EXCEPT !.startDate = startDate,
                                               !.endDate = endDate],
                       !.pc = "agg", !.queried = TRUE]]
  /\ UNCHANGED <<now, downloadTokens, issued, store, sent, origin>>

(* a rejection that is swallowed: the call returns what it has so far *)
SummaryQuerySwallowed(r) ==
  LET rq == req[r]
  IN /\ rq.kind = "summary"
     /\ rq.pc \in {"agg", "aggexp", "fb_entries", "fb_expenses"}
     /\ req' = [req EXCEPT ![r] = AfterSummary(rq, rq.summary)]
     /\ UNCHANGED <<now, downloadTokens, issued, store, sent, origin>>

(* a query of getSummaryByDateRange rejects: asyncHandler hands the error *)
(* to the error middleware                                                *)
SummaryQueryFails(r) ==
  LET rq == req[r]
  IN /\ rq.kind = "summary"
     /\ rq.pc \in {"agg", "aggexp", "fb_entries", "fb_expenses"}
     /\ req' = [req EXCEPT ![r] = Respond(rq, 500, "store error", NoFile)]
     /\ UNCHANGED <<now, downloadTokens, issued, store, sent, origin>>

----------------------------------------------------------------------------
(* generateBrowserDownload and generatePublicDownload *)

(* uuidv4(), downloadTokens.set(...), then getSummaryByDateRange is called *)
(* and issues its truck aggregate                                          *)
StoreToken(r, rq, userId, org, body, authenticated, sessionOrg) ==
  LET token == uuidv4(issued)
      entry == TokenEntry(userId, org, body, now)
  IN /\ downloadTokens' = MapSet(downloadTokens, token, entry)
     /\ issued' = issued \cup {token}
     /\ origin' = [k \in DOMAIN origin \cup {token} |->
                     IF k = token
                     THEN [authenticated |-> authenticated, sessionOrg |-> sessionOrg]
                     ELSE origin[k]]
     /\ req' = [req EXCEPT ![r] =
          [rq EXCEPT !.token = token, !.data = entry, !.pc = "agg",
                     !.queried = TRUE]]

(* the tokens that requests suspended before uuidv4() will still draw *)
Pending == Cardinality({ r \in Slots : req[r].pc = "user" })

(* a request that will call uuidv4() is admitted while strings are left *)
TokensLeft == Cardinality(issued) + Pending < MaxTokens

(* POST /api/reports/browser-download behind authenticateToken *)
StartBrowserDownload(r, session, body) ==
  LET rq == [IdleReq EXCEPT !.kind = "browser", !.authenticated = TRUE,
                            !.startedAt = now,
                            !.data = TokenEntry(session.id, session.organizationId,
                                                body, 0)]
  IN /\ FreeSlot(r)
     /\ IF body.startDate = Missing \/ body.endDate = Missing
        THEN /\ req' = [req EXCEPT ![r] =
                  GenerateCatch(rq, "Start date and end date are required")]
             /\ UNCHANGED <<downloadTokens, issued, origin>>
        ELSE IF session.organizationId = NoOrg
        THEN /\ TokensLeft
             /\ req' = [req EXCEPT ![r] = [rq EXCEPT !.pc = "user", !.queried = TRUE]]
             /\ UNCHANGED <<downloadTokens, issued, origin>>
        ELSE /\ TokensLeft
             /\ StoreToken(r, rq, session.id, session.organizationId, body, TRUE,
                           session.organizationId)
     /\ UNCHANGED <<now, store, sent>>

(* User.findById(req.user.id).populate('organization') resolves *)
BrowserUser(r) ==
  LET rq == req[r]
      org == OrgOid(store.users[rq.data.userId])
  IN /\ rq.kind = "browser" /\ rq.pc = "user"
     /\ StoreToken(r, rq, rq.data.userId, org, rq.data, TRUE, org)
     /\ UNCHANGED <<now, store, sent>>

(* User.findById rejects: the error is logged, organizationId stays unset *)
BrowserUserFails(r) ==
  LET rq == req[r]
  IN /\ rq.kind = "browser" /\ rq.pc = "user"
     /\ req' = [req EXCEPT ![r] = GenerateCatch(rq, "User organization not found")]
     /\ UNCHANGED <<now, downloadTokens, issued, store, sent, origin>>

(* POST /api/download/generate, mounted without authenticateToken *)
StartPublicDownload(r, body, organizationId) ==
  LET rq == [IdleReq EXCEPT !.kind = "public", !.startedAt = now,
                            !.data = TokenEntry("", organizationId, body, 0)]
  IN /\ FreeSlot(r)
     /\ IF body.startDate = Missing \/ body.endDate = Missing
           \/ organizationId = NoOrg
        THEN /\ req' = [req EXCEPT ![r] =
                  GenerateCatch(rq, "Start date, end date, and organization ID are required")]
             /\ UNCHANGED <<downloadTokens, issued, origin>>
        ELSE /\ TokensLeft
             /\ StoreToken(r, rq, "", organizationId, body, FALSE, NoOrg)
     /\ UNCHANGED <<now, store, sent>>

(* TruckEntry.countDocuments resolves: res.json with the download URL *)
GenerateCount(r) ==
  LET rq == req[r]
  IN /\ rq.kind \in {"browser", "public"} /\ rq.pc = "count"
     /\ req' = [req EXCEPT ![r] =
          Respond([rq EXCEPT !.entriesCount =
                     Cardinality(TruckFind(store,
                       Filters(rq.data.organization, TRUE,
                               Midnight(rq.data.startDate),
                               EndOfDay(rq.data.endDate))))],
                  200, "", NoFile)]
     /\ UNCHANGED <<now, downloadTokens, issued, store, sent, origin>>

(* the summary or the count query of an issue request rejects *)
GenerateQueryFails(r) ==
  LET rq == req[r]
  IN /\ rq.kind \in {"browser", "public"}
     /\ rq.pc \in {"agg", "aggexp", "fb_entries", "fb_expenses", "count"}
     /\ req' = [req EXCEPT ![r] = GenerateCatch(rq, "store error")]
     /\ UNCHANGED <<now, downloadTokens, issued, store, sent, origin>>

----------------------------------------------------------------------------
(* createTruckEntry, updateTruckEntry, deleteTruckEntry, deleteOtherExpense *)

(* every summary call in flight notes the store a write leaves behind. *)
(* seen is read by no handler: it is the history of the store during   *)
(* the call, kept for the snapshot property                            *)
Witnessed(r, st) ==
  [q \in Slots |->
     IF q # r /\ req[q].kind = "summary" /\ req[q].pc \notin {"idle", "done"}
     THEN [req[q] EXCEPT !.seen = @ \cup {st}]
     ELSE req[q]]

(* the response of a write handler: the documents in memory are gone *)
WriteRespond(rq, status, error) ==
  Respond([rq EXCEPT !.write.doc = NoDoc, !.write.loaded = NoDoc],
          status, error, NoFile)

(* the _id a new document gets; the model has one to hand out *)
NewId == "KA06"

IdInUse(id) ==
  \/ \E e \in store.trucks : e.id = id
  \/ \E q \in Slots : req[q].write.doc.id = id /\ req[q].kind = "createTruck"

(* POST /api/truck-entries: validation, then TruckEntry.create is issued *)
StartCreateTruck(r, session, body) ==
  LET rq == [IdleReq EXCEPT !.kind = "createTruck", !.authenticated = TRUE,
                            !.startedAt = now,
                            !.write = [NoWrite EXCEPT !.session = session,
                                                      !.body = body]]
      doc == [NoDoc EXCEPT !.id = NewId,
                           !.organization = session.organizationId.id,
                           !.userId = session.id,
                           !.entryType = body.entryType, !.materialType = "Dust",
                           !.units = body.units, !.ratePerUnit = body.ratePerUnit,
                           !.entryDate = 3, !.status = "active"]
  IN /\ FreeSlot(r)
     /\ ~IdInUse(NewId)
     /\ req' = [req EXCEPT ![r] =
          IF body.entryType = "" \/ body.units = Missing \/ body.ratePerUnit = Missing
          THEN WriteRespond(rq, 400, "Missing required fields")
          ELSE [rq EXCEPT !.pc = "t_create", !.write.doc = doc, !.queried = TRUE]]
     /\ UNCHANGED <<now, downloadTokens, issued, store, sent, origin>>

(* TruckEntry.create resolves: the pre-save hook ran and the document is *)
(* in the collection                                                     *)
TruckCreated(r) ==
  LET rq == req[r]
      after == [store EXCEPT !.trucks = @ \cup {PreSave(rq.write.doc)}]
  IN /\ rq.kind = "createTruck" /\ rq.pc = "t_create"
     /\ store' = after
     /\ req' = [Witnessed(r, after) EXCEPT ![r] = WriteRespond(rq, 201, "")]
     /\ UNCHANGED <<now, downloadTokens, issued, sent, origin>>

(* PUT /api/truck-entries/:id and DELETE /api/truck-entries/:id: the first *)
(* turn, up to TruckEntry.findOne                                          *)
StartTruckWrite(r, kind, session, id, body) ==
  /\ FreeSlot(r)
  /\ req' = [req EXCEPT ![r] =
       [IdleReq EXCEPT !.kind = kind, !.authenticated = TRUE, !.startedAt = now,
                       !.pc = "t_find", !.queried = TRUE,
                       !.write = [NoWrite EXCEPT !.session = session,
                                                 !.target = id, !.body = body]]]
  /\ UNCHANGED <<now, downloadTokens, issued, store, sent, origin>>

StartUpdateTruck(r, session, id, body) ==
  StartTruckWrite(r, "updateTruck", session, id, body)

StartDeleteTruck(r, session, id) ==
  StartTruckWrite(r, "deleteTruck", session, id, NoBody)

(* TruckEntry.findOne({_id, organization, status: 'active'}) *)
TruckFindOne(st, id, session) ==
  { e \in st.trucks : /\ e.id = id
                       /\ FindOrgMatch(e.organization, session.organizationId)
                       /\ e.status = "active" }

(* "Update fields": a field of the body that is truthy is assigned *)
ApplyBody(entry, body) ==
  [entry EXCEPT
     !.entryType = IF body.entryType # "" THEN body.entryType ELSE @,
     !.units = IF body.units # Missing THEN body.units ELSE @,
     !.ratePerUnit = IF body.ratePerUnit # Missing THEN body.ratePerUnit ELSE @]

(* findOne resolves: not found, not authorized, or the document is changed *)
(* in memory and save() is issued                                          *)
TruckFound(r) ==
  LET rq == req[r]
      w == rq.write
      found == TruckFindOne(store, w.target, w.session)
      entry == CHOOSE e \in found : TRUE
  IN /\ rq.kind \in {"updateTruck", "deleteTruck"} /\ rq.pc = "t_find"
     /\ req' = [req EXCEPT ![r] =
          IF found = {}
          THEN WriteRespond(rq, 404, "Truck entry not found")
          ELSE IF w.session.role # "owner" /\ entry.userId # w.session.id
          THEN WriteRespond(rq, 403, "You are not authorized")
          ELSE [rq EXCEPT !.pc = "t_save", !.found = TRUE,
                          !.write.loaded = entry,
                          !.write.doc =
                             IF rq.kind = "updateTruck"
                             THEN ApplyBody(entry, w.body)
                             ELSE [entry EXCEPT !.status = "deleted"]]]
     /\ UNCHANGED <<now, downloadTokens, issued, store, sent, origin>>

(* save() of a loaded document: updateOne({_id}, {$set: the paths whose *)
(* value differs from the loaded one}), after the pre-save hook         *)
SetModified(current, doc, loaded) ==
  [f \in DOMAIN current |-> IF doc[f] # loaded[f] THEN doc[f] ELSE current[f]]

SaveTruck(st, doc, loaded) ==
  [st EXCEPT !.trucks =
     { IF e.id = doc.id THEN SetModified(e, PreSave(doc), loaded) ELSE e : e \in @ }]

(* entry.save() resolves *)
TruckSaved(r) ==
  LET rq == req[r]
      after == SaveTruck(store, rq.write.doc, rq.write.loaded)
  IN /\ rq.kind \in {"updateTruck", "deleteTruck"} /\ rq.pc = "t_save"
     /\ store' = after
     /\ req' = [Witnessed(r, after) EXCEPT ![r] = WriteRespond(rq, 200, "")]
     /\ UNCHANGED <<now, downloadTokens, issued, sent, origin>>

(* DELETE /api/other-expenses/:id: the first turn, up to findOne *)
StartDeleteExpense(r, session, id) ==
  /\ FreeSlot(r)
  /\ req' = [req EXCEPT ![r] =
       [IdleReq EXCEPT !.kind = "deleteExpense", !.authenticated = TRUE,
                       !.startedAt = now, !.pc = "e_find", !.queried = TRUE,
                       !.write = [NoWrite EXCEPT !.session = session,
                                                 !.target = id]]]
  /\ UNCHANGED <<now, downloadTokens, issued, store, sent, origin>>

(* OtherExpense.findOne({_id, organization, isActive: true}) *)
ExpenseFindOne(st, id, session) ==
  { x \in st.expenses : /\ x.id = id
                         /\ FindOrgMatch(x.organization, session.organizationId)
                         /\ x.isActive }

(* findOne resolves: not found, or isActive = false and save() is issued *)
ExpenseFound(r) ==
  LET rq == req[r]
      found == ExpenseFindOne(store, rq.write.target, rq.write.session)
  IN /\ rq.kind = "deleteExpense" /\ rq.pc = "e_find"
     /\ req' = [req EXCEPT ![r] =
          IF found = {}
          THEN WriteRespond(rq, 404, "Other expense not found")
          ELSE [rq EXCEPT !.pc = "e_save", !.found = TRUE]]
     /\ UNCHANGED <<now, downloadTokens, issued, store, sent, origin>>

(* otherExpense.save() resolves: $set {isActive: false} *)
ExpenseSaved(r) ==
  LET rq == req[r]
      after == [store EXCEPT !.expenses =
                  { IF x.id = rq.write.target THEN [x EXCEPT !.isActive = FALSE]
                    ELSE x : x \in @ }]
  IN /\ rq.kind = "deleteExpense" /\ rq.pc = "e_save"
     /\ store' = after
     /\ req' = [Witnessed(r, after) EXCEPT ![r] = WriteRespond(rq, 200, "")]
     /\ UNCHANGED <<now, downloadTokens, issued, sent, origin>>

(* a Record Store call of a write handler rejects: asyncHandler hands the *)
(* error to the error middleware, nothing is written                      *)
WriteFails(r) ==
  LET rq == req[r]
  IN /\ rq.pc \in {"t_create", "t_find", "t_save", "e_find", "e_save"}
     /\ req' = [req EXCEPT ![r] = WriteRespond(rq, 500, "store error")]
     /\ UNCHANGED <<now, downloadTokens, issued, store, sent, origin>>

----------------------------------------------------------------------------
(* generateExportData: the export an authenticated caller gets directly *)

(* POST or GET /api/reports/export behind authenticateToken: the first *)
(* turn, up to TruckEntry.find                                         *)
StartExport(r, session, body) ==
  LET rq == [IdleReq EXCEPT !.kind = "export", !.authenticated = TRUE,
                            !.startedAt = now,
                            !.data = TokenEntry(session.id, session.organizationId,
                                                body, 0),
                            !.filters = ExportFilter(session, body)]
  IN /\ FreeSlot(r)
     /\ req' = [req EXCEPT ![r] =
          IF body.startDate = Missing \/ body.endDate = Missing
          THEN ExportCatch(rq, "Start date and end date are required")
          ELSE IF session.organizationId = NoOrg
          THEN ExportCatch(rq, "User organization not found")
          ELSE [rq EXCEPT !.pc = "x_entries", !.queried = TRUE]]
     /\ UNCHANGED <<now, downloadTokens, issued, store, sent, origin>>

(* TruckEntry.find(filter) resolves; OtherExpense.find is issued *)
ExportEntries(r) ==
  LET rq == req[r]
  IN /\ rq.kind = "export" /\ rq.pc = "x_entries"
     /\ req' = [req EXCEPT ![r] =
          [rq EXCEPT !.entries = TruckFind(store, rq.filters),
                     !.pc = "x_expenses"]]
     /\ UNCHANGED <<now, downloadTokens, issued, store, sent, origin>>

(* OtherExpense.find(otherExpensesFilter) resolves; getSummaryByDateRange *)
(* is called and issues its truck aggregate                               *)
ExportExpenses(r) ==
  LET rq == req[r]
  IN /\ rq.kind = "export" /\ rq.pc = "x_expenses"
     /\ req' = [req EXCEPT ![r] =
          [rq EXCEPT !.otherExpenses = ExportExpenseFind(store, rq.filters),
                     !.pc = "agg"]]
     /\ UNCHANGED <<now, downloadTokens, issued, store, sent, origin>>

(* OtherExpense.find({isActive: true}) of the log resolves *)
ExportDiagnostic(r) ==
  LET rq == req[r]
  IN /\ rq.kind = "export" /\ rq.pc = "x_diag"
     /\ req' = [req EXCEPT ![r] = ExportDispatch(rq)]
     /\ UNCHANGED <<now, downloadTokens, issued, store, sent, origin>>

(* generatePdf resolves: res.send(pdfBuffer) *)
ExportPdf(r) ==
  LET rq == req[r]
  IN /\ rq.kind = "export" /\ rq.pc = "pdf"
     /\ req' = [req EXCEPT ![r] = Respond(rq, 200, "", ExportFile(rq))]
     /\ UNCHANGED <<now, downloadTokens, issued, store, sent, origin>>

(* a Record Store query, or generatePdf, of an export request rejects *)
ExportQueryFails(r) ==
  LET rq == req[r]
  IN /\ rq.kind = "export"
     /\ rq.pc \in {"x_entries", "x_expenses", "agg", "aggexp", "fb_entries",
                   "fb_expenses", "x_diag", "pdf"}
     /\ req' = [req EXCEPT ![r] = ExportCatch(rq, "store error")]
     /\ UNCHANGED <<now, downloadTokens, issued, store, sent, origin>>

----------------------------------------------------------------------------
(* The revision of the controller that signs its download tokens *)

(* expiresIn: '5m' *)
JwtExpiresIn == 5 * 60 * 1000

FormatIndex(format) ==
  CASE format = "pdf" -> 0 [] format = "csv" -> 1 [] OTHER -> 2

(* jwt.sign(payload, secret, {expiresIn}): the string is a function of the *)
(* payload and of the time of signing, here of the format and the time     *)
JwtSign(body, t) == 1 + 3 * (t \div TickMs) + FormatIndex(body.format)

(* the iat claim of a string jwt.sign returned *)
JwtIat(token) == ((token - 1) \div 3) * TickMs

(* the strings a request can carry: 0 is one the server never signed *)
JwtStrings == 0..(3 * (MaxTicks + 1))

(* jwt.verify(token, secret): the message of the error it throws, or "" *)
JwtVerify(token, used, t) ==
  IF token \notin used THEN "jwt malformed"
  ELSE IF t >= JwtIat(token) + JwtExpiresIn THEN "jwt expired"
  ELSE ""

(* POST /api/reports/browser-download: no await, one turn.  A payload is *)
(* signed once per instant (a second signing within the same second      *)
(* returns the same string), and MaxTokens strings are signed in all     *)
JwtBrowserDownload(r, session, body) ==
  LET rq == [IdleReq EXCEPT !.kind = "jwtissue", !.authenticated = TRUE,
                            !.startedAt = now]
      token == JwtSign(body, now)
      entry == TokenEntry(session.id, session.organizationId, body, now)
  IN /\ FreeSlot(r)
     /\ IF body.startDate = Missing \/ body.endDate = Missing
        THEN /\ req' = [req EXCEPT ![r] =
                  GenerateCatch(rq, "Start date and end date are required")]
             /\ UNCHANGED <<downloadTokens, issued, origin>>
        ELSE IF session.organizationId = NoOrg
        THEN /\ req' = [req EXCEPT ![r] =
                  GenerateCatch(rq, "User organization not found")]
             /\ UNCHANGED <<downloadTokens, issued, origin>>
        ELSE /\ token \notin issued /\ Cardinality(issued) < MaxTokens
             /\ downloadTokens' = MapSet(downloadTokens, token, entry)
             /\ issued' = issued \cup {token}
             /\ origin' = [k \in DOMAIN origin \cup {token} |->
                             IF k = token
                             THEN [authenticated |-> TRUE,
                                   sessionOrg |-> session.organizationId]
                             ELSE origin[k]]
             /\ req' = [req EXCEPT ![r] =
                  Respond([rq EXCEPT !.token = token, !.data = entry],
                          200, "", NoFile)]
     /\ UNCHANGED <<now, store, sent>>

(* GET /api/reports/download/:token: jwt.verify, the lookup, the cleanup *)
(* loop, up to TruckEntry.find                                           *)
JwtStartDownload(r, token) ==
  LET failure == JwtVerify(token, issued, now)
      downloadData == MapGet(downloadTokens, token)
      rq == [IdleReq EXCEPT
               !.kind = "jwt", !.token = token, !.startedAt = now,
               !.found = (failure = "" /\ token \in DOMAIN downloadTokens),
               !.afterSuccess = (sent[token] > 0),
               !.neverIssued = (token \notin issued)]
  IN /\ FreeSlot(r)
     /\ IF failure # ""
        THEN /\ req' = [req EXCEPT ![r] = DownloadCatch(rq, failure)]
             /\ UNCHANGED downloadTokens
        ELSE IF downloadData = NoData
        THEN /\ req' = [req EXCEPT ![r] =
                  DownloadCatch(rq, LookupError(token, issued))]
             /\ UNCHANGED downloadTokens
        ELSE /\ downloadTokens' = CleanUp(downloadTokens, now)
             /\ req' = [req EXCEPT ![r] =
                  [rq EXCEPT !.pc = "entries", !.data = downloadData,
                             !.queried = TRUE]]
     /\ UNCHANGED <<now, issued, store, sent, origin>>

(* TruckEntry.find(filter) resolves; getSummaryByDateRange is called and *)
(* issues its truck aggregate                                            *)
JwtDownloadEntries(r) ==
  LET rq == req[r]
  IN /\ rq.kind = "jwt" /\ rq.pc = "entries"
     /\ req' = [req EXCEPT ![r] =
          [rq EXCEPT !.entries = TruckFind(store, JwtFilter(rq.data)),
                     !.pc = "agg"]]
     /\ UNCHANGED <<now, downloadTokens, issued, store, sent, origin>>

----------------------------------------------------------------------------

(* The inputs the requests are drawn from *)
Pdf == [startDate |-> 1, endDate |-> 2, format |-> "pdf"]
Csv == [startDate |-> 1, endDate |-> 2, format |-> "csv"]
Xlsx == [startDate |-> 1, endDate |-> 1, format |-> "xlsx"]
NoStart == [startDate |-> Missing, endDate |-> 2, format |-> "pdf"]

(* req.user as authenticateToken attaches it.  The first session carries *)
(* organizationId in its JWT payload; the second does not, and its       *)
(* organization is read from the users collection.                       *)
U1 == [id |-> "u1", role |-> "owner", organizationId |-> OrgStr(1)]
U2 == [id |-> "u2", role |-> "user", organizationId |-> NoOrg]

BrowserInputs == { <<U1, Pdf>>, <<U1, Csv>>, <<U1, Xlsx>>, <<U1, NoStart>>, <<U2, Pdf>> }
PublicInputs == { <<Pdf, OrgStr(2)>>, <<Pdf, NoOrg>> }

(* a suspended request is resumed by the event loop *)
Continue(r) ==
  \/ DownloadEntries(r)
  \/ DownloadExpenses(r)
  \/ SummaryAggregate(r)
  \/ SummaryExpenseAggregate(r)
  \/ SummaryFallbackEntries(r)
  \/ SummaryFallbackExpenses(r)
  \/ DownloadOrganization(r)
  \/ DownloadPdf(r)
  \/ DownloadQueryFails(r)
  \/ BrowserUser(r)
  \/ BrowserUserFails(r)
  \/ GenerateCount(r)
  \/ GenerateQueryFails(r)
  \/ Release(r)

(* The token lifecycle: requests arrive, are resumed, and time passes *)
Next ==
  \/ Tick
  \/ \E r \in Slots : Continue(r)
  \/ \E r \in Slots, t \in TokenStrings : StartDownload(r, t, NoOrg)
  \/ \E r \in Slots, i \in BrowserInputs : StartBrowserDownload(r, i[1], i[2])
  \/ \E r \in Slots, i \in PublicInputs : StartPublicDownload(r, i[1], i[2])

Spec == Init /\ [][Next]_vars

(* The report contents: no clock, and download requests that carry an *)
(* organization of their own in the query string                      *)
QueryOrgs == {NoOrg, OrgStr(2)}

ReportNext ==
  \/ \E r \in Slots : Continue(r)
  \/ \E r \in Slots, t \in TokenStrings, q \in QueryOrgs : StartDownload(r, t, q)
  \/ \E r \in Slots, i \in BrowserInputs : StartBrowserDownload(r, i[1], i[2])
  \/ \E r \in Slots, i \in PublicInputs : StartPublicDownload(r, i[1], i[2])

ReportSpec == Init /\ [][ReportNext]_vars

(* Progress: the clock advances, every pending promise settles and the   *)
(* event loop runs its continuation, and download requests keep arriving *)
(* (the arrivals are the hypothesis of the liveness property)            *)
LiveSpec ==
  /\ Init /\ [][Next]_vars
  /\ WF_vars(Tick)
  /\ \A r \in Slots : WF_vars(Continue(r))
  /\ WF_vars(\E r \in Slots, t \in TokenStrings : StartDownload(r, t, NoOrg))

(* The signing revision: tokens are issued in one turn and redeemed *)
JwtInputs == { <<U1, Pdf>>, <<U1, Csv>>, <<U1, Xlsx>>, <<U1, NoStart>>, <<U2, Pdf>> }

JwtInit ==
  /\ now = 0
  /\ downloadTokens = [k \in {} |-> NoData]
  /\ issued = {}
  /\ req = [r \in Slots |-> IdleReq]
  /\ store = InitStore
  /\ sent = [t \in JwtStrings |-> 0]
  /\ origin = [k \in {} |-> [authenticated |-> FALSE, sessionOrg |-> NoOrg]]

JwtContinue(r) ==
  \/ JwtDownloadEntries(r)
  \/ SummaryAggregate(r)
  \/ SummaryExpenseAggregate(r)
  \/ SummaryFallbackEntries(r)
  \/ SummaryFallbackExpenses(r)
  \/ DownloadPdf(r)
  \/ DownloadQueryFails(r)
  \/ Release(r)

JwtNext ==
  \/ Tick
  \/ \E r \in Slots : JwtContinue(r)
  \/ \E r \in Slots, t \in issued \cup {0} : JwtStartDownload(r, t)
  \/ \E r \in Slots, i \in JwtInputs : JwtBrowserDownload(r, i[1], i[2])

JwtSpec == JwtInit /\ [][JwtNext]_vars

(* The direct export beside the token download: a user of organization 1 *)
(* who is not its owner, and its owner, export and download the same     *)
(* range                                                                 *)
U3 == [id |-> "u3", role |-> "user", organizationId |-> OrgStr(1)]

ExportInputs ==
  { <<U3, Csv>>, <<U3, Pdf>>, <<U1, Csv>>, <<U3, Xlsx>>, <<U1, NoStart>>, <<U2, Pdf>> }

ExportIssueInputs == { <<U3, Csv>>, <<U3, Pdf>>, <<U1, Csv>> }

ExportContinue(r) ==
  \/ ExportEntries(r)
  \/ ExportExpenses(r)
  \/ ExportDiagnostic(r)
  \/ ExportPdf(r)
  \/ ExportQueryFails(r)
  \/ DownloadEntries(r)
  \/ DownloadExpenses(r)
  \/ SummaryAggregate(r)
  \/ SummaryExpenseAggregate(r)
  \/ SummaryFallbackEntries(r)
  \/ SummaryFallbackExpenses(r)
  \/ DownloadOrganization(r)
  \/ DownloadPdf(r)
  \/ DownloadQueryFails(r)
  \/ GenerateCount(r)
  \/ GenerateQueryFails(r)
  \/ Release(r)

ExportNext ==
  \/ \E r \in Slots : ExportContinue(r)
  \/ \E r \in Slots, i \in ExportInputs : StartExport(r, i[1], i[2])
  \/ \E r \in Slots, i \in ExportIssueInputs : StartBrowserDownload(r, i[1], i[2])
  \/ \E r \in Slots, t \in TokenStrings : StartDownload(r, t, NoOrg)

ExportSpec == Init /\ [][ExportNext]_vars

(* The writes: records are created, updated and soft-deleted by requests *)
(* that run side by side                                                 *)
NewSales == [NoBody EXCEPT !.entryType = "Sales", !.units = 3, !.ratePerUnit = 7,
                           !.totalAmount = 999]
NoUnits == [NoBody EXCEPT !.entryType = "Sales", !.ratePerUnit = 7]
FewerUnits == [NoBody EXCEPT !.units = 5, !.totalAmount = 999]
LowerRate == [NoBody EXCEPT !.ratePerUnit = 20]

CreateInputs == { <<U1, NewSales>>, <<U1, NoUnits>> }
UpdateInputs ==
  { <<U1, "KA01", FewerUnits>>, <<U1, "KA01", LowerRate>>, <<U3, "KA01", LowerRate>>,
    <<U1, "KA06", FewerUnits>>, <<U1, "KA04", FewerUnits>> }
DeleteInputs == { <<U1, "KA01">>, <<U3, "KA02">>, <<U1, "KA04">> }
DeleteExpenseInputs == { <<U1, "diesel">>, <<U1, "tea">> }

WriteContinue(r) ==
  \/ TruckCreated(r)
  \/ TruckFound(r)
  \/ TruckSaved(r)
  \/ ExpenseFound(r)
  \/ ExpenseSaved(r)
  \/ WriteFails(r)
  \/ Release(r)

WriteStart(r) ==
  \/ \E i \in CreateInputs : StartCreateTruck(r, i[1], i[2])
  \/ \E i \in UpdateInputs : StartUpdateTruck(r, i[1], i[2], i[3])
  \/ \E i \in DeleteInputs : StartDeleteTruck(r, i[1], i[2])
  \/ \E i \in DeleteExpenseInputs : StartDeleteExpense(r, i[1], i[2])

WriteNext ==
  \/ \E r \in Slots : WriteStart(r)
  \/ \E r \in Slots : WriteContinue(r)

WriteSpec == Init /\ [][WriteNext]_vars

(* The summary on its own: one call at a time, over every store that can *)
(* be built from the records below.  Seeded is a record as seedData.js   *)
(* writes it: insertMany runs no pre-save hook, so totalAmount is absent *)
Seeded ==
  [id |-> "KA05", organization |-> 1, userId |-> "u1", entryType |-> "Sales",
   materialType |-> "P-Sand", units |-> 8, ratePerUnit |-> 20, totalAmount |-> Missing,
   entryDate |-> 4, status |-> "active"]

(* a store written through createTruckEntry and createOtherExpense: two *)
(* Sales entries, one Raw Stone entry and one expense, all on one day   *)
ScenarioStore ==
  [trucks |-> { NewTruck("KA11", 1, "u1", "Sales", "M-Sand", 10, 22000, 3),
                NewTruck("KA12", 1, "u1", "Sales", "P-Sand", 5, 20000, 3),
                NewTruck("KA13", 1, "u1", "Raw Stone", "", 8, 18000, 3) },
   expenses |-> { [id |-> "wages", organization |-> 1, user |-> "u1",
                   amount |-> 5000, date |-> 3, isActive |-> TRUE] },
   users |-> InitStore.users]

Stores ==
  { [trucks |-> T, expenses |-> X, users |-> InitStore.users] :
      T \in SUBSET (InitStore.trucks \cup {Seeded}),
      X \in SUBSET InitStore.expenses }
    \cup {ScenarioStore}

(* the filters the callers of getSummaryByDateRange pass *)
NoFilters == Filters(NoOrg, FALSE, 0, 0)
OwnEntries == WithUser(NoFilters, UserStr("u1"))
DashboardOwner == Filters(OrgOid(1), FALSE, 0, 0)
DashboardUser == WithUser(DashboardOwner, UserOid("u1"))
IssueFilters == Filters(OrgStr(1), FALSE, 0, 0)
DownloadFilters == Filters(OrgStr(1), TRUE, Midnight(1), EndOfDay(2))

SummaryInputs ==
  { <<1, 2, f>> : f \in {NoFilters, OwnEntries, DashboardOwner, DashboardUser,
                         IssueFilters, DownloadFilters} }
    \cup { <<1, 3, NoFilters>>, <<1, 3, DashboardOwner>>, <<1, 3, IssueFilters>>,
           <<3, 3, DashboardOwner>> }

SummaryInit ==
  /\ now = 0
  /\ downloadTokens = [k \in {} |-> NoData]
  /\ issued = {}
  /\ req = [r \in Slots |-> IdleReq]
  /\ store \in Stores
  /\ sent = [t \in TokenStrings |-> 0]
  /\ origin = [k \in {} |-> [authenticated |-> FALSE, sessionOrg |-> NoOrg]]

SummaryNext ==
  \/ \E i \in SummaryInputs : StartSummary(1, i[1], i[2], i[3])
  \/ SummaryAggregate(1)
  \/ SummaryExpenseAggregate(1)
  \/ SummaryFallbackEntries(1)
  \/ SummaryFallbackExpenses(1)
  \/ SummaryQueryFails(1)
  \/ Release(1)

SummarySpec == SummaryInit /\ [][SummaryNext]_vars

(* A summary in the first slot while writes run in the second *)
SnapshotInputs == { <<1, 3, DashboardOwner>>, <<1, 3, IssueFilters>> }

SnapshotNext ==
  \/ \E i \in SnapshotInputs : StartSummary(1, i[1], i[2], i[3])
  \/ SummaryAggregate(1)
  \/ SummaryExpenseAggregate(1)
  \/ SummaryFallbackEntries(1)
  \/ SummaryFallbackExpenses(1)
  \/ SummaryQueryFails(1)
  \/ Release(1)
  \/ StartCreateTruck(2, U1, NewSales)
  \/ StartUpdateTruck(2, U1, "KA01", FewerUnits)
  \/ StartDeleteTruck(2, U1, "KA01")
  \/ StartDeleteExpense(2, U1, "diesel")
  \/ WriteContinue(2)

SnapshotSpec == Init /\ [][SnapshotNext]_vars

----------------------------------------------------------------------------
(* Properties of the token lifecycle *)

Present(t) == t \in DOMAIN downloadTokens

DownloadDone(r) == req[r].kind = "download" /\ req[r].pc = "done"

(* the request found its token, and the entry was older than the TTL *)
ExpiredAtStart(r) ==
  req[r].kind = "download" /\ req[r].found
  /\ IsExpired(req[r].data, req[r].startedAt)

FileSent(r) == DownloadDone(r) /\ req[r].file # NoFile

(* C1: of the downloadWithToken requests that carry one token, overlapping *)
(* or not, at most one sends the report file.                              *)
C1_AtMostOneFilePerToken == \A t \in TokenStrings : sent[t] <= 1

(* C2: a downloadWithToken request that starts after a request for the *)
(* same token has sent its file is rejected at once and sends no file. *)
C2_RejectedAfterSuccess ==
  \A r \in Slots :
    (req[r].kind = "download" /\ req[r].afterSuccess)
      => (req[r].pc = "done" /\ req[r].status # 200 /\ req[r].file = NoFile)

C2_Witness ==
  \E r \in Slots : DownloadDone(r) /\ req[r].afterSuccess /\ req[r].status = 500

(* C3: a downloadWithToken request that finds its token in the table with *)
(* an age above the TTL sends no file and is not answered with success,   *)
(* and the expired entry is removed.                                      *)
C3_ExpiredTokenRejected ==
  \A r \in Slots :
    ExpiredAtStart(r)
      => (req[r].file = NoFile /\ req[r].status # 200 /\ ~Present(req[r].token))

(* C4: a downloadWithToken request whose token no issue operation has   *)
(* returned is rejected in its first turn: no Record Store query, no    *)
(* file, and downloadTokens is left as it was.                          *)
C4_UnknownTokenRejected ==
  [][\A r \in Slots :
       (req[r].pc = "idle" /\ req'[r].kind = "download" /\ req'[r].neverIssued)
         => /\ req'[r].pc = "done"
            /\ req'[r].status # 200
            /\ ~req'[r].queried
            /\ req'[r].file = NoFile
            /\ downloadTokens' = downloadTokens]_vars

C4_Witness ==
  \E r \in Slots :
    /\ DownloadDone(r) /\ req[r].neverIssued /\ req[r].status = 500
    /\ \E k \in DOMAIN downloadTokens : IsExpired(downloadTokens[k], now)

(* C5: when a downloadWithToken request that found its token ends, with a *)
(* file or with an error, the token is no longer in downloadTokens.       *)
C5_TokenConsumedByLookup ==
  \A r \in Slots :
    (DownloadDone(r) /\ req[r].found) => ~Present(req[r].token)

(* C7: every entry of downloadTokens was stored by an authenticated request *)
(* and is bound to the organization of that caller's session.               *)
C7_TokensFromAuthenticatedCallers ==
  \A t \in DOMAIN downloadTokens :
    /\ origin[t].authenticated
    /\ downloadTokens[t].organization = origin[t].sessionOrg

(* C8: a token enters downloadTokens once, when uuidv4 first returns it,  *)
(* and leaves it once, by a redemption that sent its file or by a cleanup *)
(* of an entry older than the TTL; while present its entry never changes, *)
(* and once removed it is never present again.                            *)
C8_TokenLifecycle ==
  [][\A t \in TokenStrings :
       /\ (Present(t) /\ t \in DOMAIN downloadTokens')
            => downloadTokens'[t] = downloadTokens[t]
       /\ (~Present(t) /\ t \in DOMAIN downloadTokens')
            => (t \notin issued /\ downloadTokens'[t].createdAt = now)
       /\ (Present(t) /\ t \notin DOMAIN downloadTokens')
            => (sent'[t] = sent[t] + 1 \/ IsExpired(downloadTokens[t], now))]_vars

C8_Witness ==
  \E t, u \in Tokens :
    /\ t \in issued /\ ~Present(t)
    /\ Present(u) /\ downloadTokens[u].createdAt < now

(* C9: the cleanup is part of every issue and every redeem: when an issue *)
(* request or a downloadWithToken request has completed, downloadTokens   *)
(* holds no entry that was older than the TTL when the request arrived.   *)
C9_NoStaleEntryAfterRequest ==
  \A r \in Slots :
    req[r].pc = "done"
      => \A k \in DOMAIN downloadTokens :
           ~IsExpired(downloadTokens[k], req[r].startedAt)

(* C10: with requests arriving forever, every entry whose age exceeds the *)
(* TTL is eventually removed from downloadTokens.                         *)
C10_ExpiredEntryEventuallyRemoved ==
  \A t \in Tokens :
    (Present(t) /\ IsExpired(downloadTokens[t], now)) ~> ~Present(t)

----------------------------------------------------------------------------
(* Properties of the responses and of the frame *)

(* the request did not find its token: it was rejected for the token *)
TokenRejected(r) ==
  req[r].kind \in {"download", "jwt"} /\ req[r].pc = "done" /\ ~req[r].found

(* C11: two downloadWithToken requests rejected for their token get the  *)
(* same status and the same body, whether the token was never issued,    *)
(* was removed as expired, or was already redeemed.                      *)
C11_RejectionsIndistinguishable ==
  \A r1, r2 \in Slots :
    (TokenRejected(r1) /\ TokenRejected(r2))
      => (req[r1].status = req[r2].status /\ req[r1].error = req[r2].error
          /\ req[r1].file = req[r2].file)

(* C12: a downloadWithToken request rejected because its token is not in *)
(* the table is answered with status 401 or 403, never with a 5xx.       *)
C12_RejectionIsUnauthorized ==
  \A r \in Slots : TokenRejected(r) => req[r].status \in {401, 403}

(* C13: no entry of downloadTokens has a format other than pdf or csv: a *)
(* request with another format is rejected before a token is stored.     *)
C13_OnlySupportedFormatsStored ==
  \A t \in DOMAIN downloadTokens : downloadTokens[t].format \in {"pdf", "csv"}

(* the request slot r holds took a step *)
Acted(r) == req'[r] # req[r] /\ req'[r].pc # "idle"

(* C14: a step of a downloadWithToken request for token A leaves the     *)
(* entry of every other token B that is within the TTL as it was; a step *)
(* of an issue request leaves every existing entry as it was; a request  *)
(* that did not find its token leaves the whole table as it was.         *)
C14_OtherEntriesUntouched ==
  [][\A r \in Slots :
       Acted(r) =>
         /\ req'[r].kind = "download" =>
              \A b \in DOMAIN downloadTokens :
                (b # req'[r].token /\ ~IsExpired(downloadTokens[b], now))
                  => (b \in DOMAIN downloadTokens'
                      /\ downloadTokens'[b] = downloadTokens[b])
         /\ req'[r].kind \in {"browser", "public"} =>
              \A b \in DOMAIN downloadTokens :
                b \in DOMAIN downloadTokens' /\ downloadTokens'[b] = downloadTokens[b]
         /\ (req'[r].kind = "download" /\ ~req'[r].found) =>
              downloadTokens' = downloadTokens]_vars

(* a request for one token has run the cleanup, which removed an expired *)
(* entry, while an entry of another token within the TTL is in the table *)
C14_Witness ==
  \E r \in Slots, b \in Tokens :
    /\ req[r].kind = "download" /\ req[r].found /\ req[r].pc = "entries"
    /\ b # req[r].token /\ Present(b)
    /\ downloadTokens[b].createdAt <= req[r].startedAt
    /\ ~IsExpired(downloadTokens[b], now)
    /\ IsExpired(req[r].data, req[r].startedAt)

----------------------------------------------------------------------------
(* Properties of getSummaryByDateRange *)

(* the arguments of the call the request in slot r made *)
ArgMatch(r) ==
  BaseMatch(req[r].data.startDate, req[r].data.endDate, SummaryFilters(req[r]))

ArgQuery(r) ==
  OtherExpensesQuery(req[r].data.startDate, req[r].data.endDate,
                     SummaryFilters(req[r]))

(* the active truck records that match the filter of the call: status, *)
(* organization, user and date range                                   *)
MatchingTrucks(r) == TruckFind(store, ArgMatch(r))

(* the active expenses in the date range of the call that match the *)
(* organization and the user of its filter                          *)
MatchingExpenses(r) ==
  { x \in store.expenses :
      /\ x.isActive
      /\ x.date >= ArgQuery(r).from /\ x.date <= ArgQuery(r).to
      /\ FindOrgMatch(x.organization, ArgMatch(r).organization)
      /\ FindUserMatch(x.user, ArgMatch(r).userId) }

OfType(S, ty) == { e \in S : e.entryType = ty }

StoredTotal(S) == SumAmt({ [id |-> e.id, amt |-> e.totalAmount] : e \in S })

(* C15: every result getSummaryByDateRange returns, from the grouped path *)
(* or from the fallback, has totalExpenses = totalRawStone +              *)
(* totalOtherExpenses and netProfit = totalSales - totalExpenses.         *)
C15_ExpensesAndProfit ==
  \A r \in Slots :
    req[r].returned
      => LET s == req[r].summary
         IN /\ s.totalExpenses = s.totalRawStone + s.totalOtherExpenses
            /\ s.netProfit = s.totalSales - s.totalExpenses

C15_Witness ==
  \E r \in Slots :
    /\ req[r].returned /\ req[r].rescanned
    /\ req[r].summary.totalRawStone > 0
    /\ req[r].summary.totalOtherExpenses > 0
    /\ req[r].summary.netProfit < 0

(* C16: every result getSummaryByDateRange returns, on either path, has *)
(* totalEntries = salesCount + rawStoneCount + otherExpensesCount.      *)
C16_TotalEntries ==
  \A r \in Slots :
    req[r].returned
      => LET s == req[r].summary
         IN s.totalEntries = s.salesCount + s.rawStoneCount + s.otherExpensesCount

C16_Witness ==
  \E r \in Slots :
    /\ req[r].returned /\ ~req[r].rescanned
    /\ req[r].summary.salesCount > 0
    /\ req[r].summary.rawStoneCount > 0
    /\ req[r].summary.otherExpensesCount > 0

(* C17: the totals getSummaryByDateRange returns are non-negative and are *)
(* the sums of totalAmount, or amount, over exactly the active records    *)
(* that match the filter of the call (organization, user, date range),    *)
(* and the counts are the numbers of those records.                       *)
C17_TotalsOverMatchingRecords ==
  \A r \in Slots :
    req[r].returned
      => LET s == req[r].summary
             trucks == MatchingTrucks(r)
             expenses == MatchingExpenses(r)
         IN /\ s.totalSales >= 0 /\ s.totalRawStone >= 0
            /\ s.totalOtherExpenses >= 0
            /\ s.totalSales = StoredTotal(OfType(trucks, "Sales"))
            /\ s.totalRawStone = StoredTotal(OfType(trucks, "Raw Stone"))
            /\ s.salesCount = Cardinality(OfType(trucks, "Sales"))
            /\ s.rawStoneCount = Cardinality(OfType(trucks, "Raw Stone"))
            /\ s.totalOtherExpenses =
                 SumAmt({ [id |-> x.id, amt |-> x.amount] : x \in expenses })
            /\ s.otherExpensesCount = Cardinality(expenses)

(* the grouped result of the call, as the two aggregations give it *)
GroupedResult(r) ==
  FormatSummary(TruckAggregate(store, ArgMatch(r)),
                ExpenseAggregate(store, ArgQuery(r)))

(* the per-record recomputation of the call *)
RecomputedResult(r) ==
  ManualSummary(TruckFind(store, ArgMatch(r)), ExpenseFind(store, ArgQuery(r)))

(* C18: the per-record rescan is issued if and only if the grouped result *)
(* has totalSales = 0 and totalRawStone = 0; when it is, the returned     *)
(* result is the recomputed one, and when it is not, the grouped result   *)
(* is returned unchanged.                                                 *)
C18_FallbackIffZero ==
  \A r \in Slots :
    /\ req[r].pc \in {"fb_entries", "fb_expenses"} => req[r].rescanned
    /\ req[r].rescanned
         => (GroupedResult(r).totalSales = 0 /\ GroupedResult(r).totalRawStone = 0)
    /\ req[r].returned
         => /\ req[r].primary = GroupedResult(r)
            /\ req[r].rescanned
                 <=> (req[r].primary.totalSales = 0 /\ req[r].primary.totalRawStone = 0)
            /\ req[r].rescanned => req[r].summary = RecomputedResult(r)
            /\ ~req[r].rescanned => req[r].summary = req[r].primary

(* the fallback has replaced a zero grouped result that counted records *)
C18_Witness ==
  \E r \in Slots :
    /\ req[r].returned /\ req[r].rescanned
    /\ req[r].primary.salesCount > 0
    /\ req[r].summary.totalSales > 0
    /\ req[r].summary # req[r].primary

(* C19: whenever both paths of getSummaryByDateRange have run, the *)
(* grouped result and the recomputed result are equal in every field. *)
C19_FallbackEquivalence ==
  \A r \in Slots :
    (req[r].returned /\ req[r].rescanned) => req[r].summary = req[r].primary

(* what a truck record adds in the fallback: its stored totalAmount when *)
(* it has one, units * ratePerUnit when it has none                      *)
Contribution(e) ==
  IF e.totalAmount # Missing THEN e.totalAmount ELSE e.units * e.ratePerUnit

ContributionTotal(S) == SumAmt({ [id |-> e.id, amt |-> Contribution(e)] : e \in S })

(* C20: in the fallback every matching truck record adds its stored     *)
(* totalAmount, or units * ratePerUnit when it has none, to the total of *)
(* its entryType only, and is counted once.                              *)
C20_FallbackContributions ==
  \A r \in Slots :
    (req[r].returned /\ req[r].rescanned)
      => LET s == req[r].summary
             trucks == MatchingTrucks(r)
         IN /\ s.totalSales = ContributionTotal(OfType(trucks, "Sales"))
            /\ s.totalRawStone = ContributionTotal(OfType(trucks, "Raw Stone"))
            /\ s.salesCount = Cardinality(OfType(trucks, "Sales"))
            /\ s.rawStoneCount = Cardinality(OfType(trucks, "Raw Stone"))
            /\ s.salesCount + s.rawStoneCount = Cardinality(trucks)

(* the fallback has summed a record with a stored totalAmount, a record *)
(* without one, and a record of the other entryType                     *)
C20_Witness ==
  \E r \in Slots :
    /\ req[r].returned /\ req[r].rescanned
    /\ \E e \in OfType(MatchingTrucks(r), "Sales") : e.totalAmount = Missing
    /\ \E e \in OfType(MatchingTrucks(r), "Sales") : e.totalAmount # Missing
    /\ OfType(MatchingTrucks(r), "Raw Stone") # {}

(* every record of the store matches the call *)
AllMatch(r) ==
  /\ MatchingTrucks(r) = store.trucks
  /\ MatchingExpenses(r) = store.expenses
  /\ ExpenseFind(store, ArgQuery(r)) = store.expenses

(* C21: with two active Sales records (10 x 22000 and 5 x 20000), one  *)
(* active Raw Stone record (8 x 18000) and one active expense of 5000, *)
(* all matching the filter, getSummaryByDateRange returns totalSales   *)
(* 320000, totalRawStone 144000, totalOtherExpenses 5000, totalExpenses *)
(* 149000, netProfit 171000 and totalEntries 4.                         *)
C21_ScenarioOne ==
  \A r \in Slots :
    (req[r].returned /\ store = ScenarioStore /\ AllMatch(r))
      => LET s == req[r].summary
         IN /\ s.totalSales = 320000 /\ s.totalRawStone = 144000
            /\ s.totalOtherExpenses = 5000 /\ s.totalExpenses = 149000
            /\ s.netProfit = 171000 /\ s.totalEntries = 4

C21_Witness ==
  \E r \in Slots :
    /\ req[r].returned /\ store = ScenarioStore /\ AllMatch(r)
    /\ ~req[r].rescanned

(* the active expenses in the date range and organization of the call *)
ExpensesInRange(r) ==
  { x \in store.expenses :
      /\ x.isActive
      /\ x.date >= ArgQuery(r).from /\ x.date <= ArgQuery(r).to
      /\ FindOrgMatch(x.organization, ArgQuery(r).organization) }

Stage(pc) ==
  CASE pc = "idle" -> 0 [] pc = "agg" -> 1 [] pc = "aggexp" -> 2
    [] pc = "fb_entries" -> 3 [] pc = "fb_expenses" -> 4 [] OTHER -> 5

C23_FailsOnlyOnQueryFailure ==
  \A r \in Slots :
    (req[r].kind = "summary" /\ req[r].pc = "done")
      => \/ /\ req[r].returned /\ req[r].status = 200 /\ req[r].error = ""
            /\ req[r].summary =
                 SummaryOf(store, req[r].data.startDate, req[r].data.endDate,
                           req[r].filters)
         \/ /\ ~req[r].returned /\ req[r].status = 500
            /\ req[r].error = "store error"

(* a query of the fallback failed after the grouped pass had counted an *)
(* expense                                                              *)
C23_Witness ==
  \E r \in Slots :
    /\ req[r].kind = "summary" /\ req[r].pc = "done"
    /\ ~req[r].returned /\ req[r].rescanned
    /\ req[r].primary.otherExpensesCount > 0

(* the organization every caller of SummarySpec belongs to *)
CallerOrganization == InitStore.users["u1"]

(* the records of one organization *)
OwnRecords(st, o) ==
  [st EXCEPT !.trucks = { e \in st.trucks : e.organization = o },
             !.expenses = { x \in st.expenses : x.organization = o }]

(* C28: the result a caller gets depends only on the truck records and *)
(* expenses of the caller's organization: it is the result of the same *)
(* call on a store without the records of the other organizations.     *)
C28_OrganizationIsolation ==
  \A r \in Slots :
    (req[r].kind = "summary" /\ req[r].returned)
      => req[r].summary =
           SummaryOf(OwnRecords(store, CallerOrganization),
                     req[r].data.startDate, req[r].data.endDate, req[r].filters)

(* C25: issuance is all-or-nothing: when generateBrowserDownload or  *)
(* generatePublicDownload answers with an error, the token it drew is *)
(* not in downloadTokens.                                             *)
C25_IssuanceAllOrNothing ==
  [][\A r \in Slots :
       (req'[r].kind \in {"browser", "public"}
        /\ req[r].pc # "done" /\ req'[r].pc = "done" /\ req'[r].status # 200)
         => req'[r].token \notin DOMAIN downloadTokens']_vars

ExpenseRows(file) == { row \in file.rows : row.entryType = "Expense" }

RowTotal(rows) == SumAmt({ [id |-> row.materialType, amt |-> row.totalAmount] : row \in rows })

(* C26: in every report downloadWithToken sends, the summary agrees with *)
(* the rows: otherExpensesCount is the number of Expense rows,           *)
(* totalOtherExpenses the sum of their amounts, and salesCount +         *)
(* rawStoneCount the number of truck rows.                               *)
C26_SummaryAgreesWithRows ==
  \A r \in Slots :
    FileSent(r)
      => LET s == req[r].file.summary
             rows == req[r].file.rows
         IN /\ s.otherExpensesCount = Cardinality(ExpenseRows(req[r].file))
            /\ s.totalOtherExpenses = RowTotal(ExpenseRows(req[r].file))
            /\ s.salesCount + s.rawStoneCount
                 = Cardinality(rows \ ExpenseRows(req[r].file))

ExportSent(r) ==
  req[r].kind = "export" /\ req[r].pc = "done" /\ req[r].status = 200

(* the columns the rows of the export and of the download have in common *)
CommonColumns(row) ==
  [date |-> row.date, truckNumber |-> row.truckNumber, entryType |-> row.entryType,
   materialType |-> row.materialType, units |-> row.units,
   ratePerUnit |-> row.ratePerUnit, totalAmount |-> row.totalAmount]

(* the export of slot a and the download of slot b are for the same caller, *)
(* date range and format                                                    *)
SameReport(a, b) ==
  /\ ExportSent(a) /\ FileSent(b)
  /\ origin[req[b].token].authenticated
  /\ req[a].data.userId = req[b].data.userId
  /\ req[a].data.startDate = req[b].data.startDate
  /\ req[a].data.endDate = req[b].data.endDate
  /\ req[a].data.format = req[b].data.format

(* C27: for the same caller, date range and format, the rows and the *)
(* summary of a redeemed token equal those of the direct export.     *)
C27_DownloadEqualsExport ==
  \A a, b \in Slots :
    SameReport(a, b)
      => /\ { CommonColumns(row) : row \in req[a].file.rows }
              = { CommonColumns(row) : row \in req[b].file.rows }
         /\ req[a].file.summary = req[b].file.summary

(* C24: every stored truck record has totalAmount = round(units *      *)
(* ratePerUnit, 2), whatever createTruckEntry and updateTruckEntry     *)
(* requests have run, and recomputing it leaves the record as it is.   *)
C24_TotalAmountDerived ==
  \A e \in store.trucks :
    /\ e.totalAmount = Round2(e.units * e.ratePerUnit)
    /\ PreSave(e) = e

(* the store without its soft-deleted records *)
Purged(st) ==
  [st EXCEPT !.trucks = { e \in st.trucks : e.status # "deleted" },
             !.expenses = { x \in st.expenses : x.isActive }]

TargetDeleted(r) ==
  \/ \E e \in store.trucks : e.id = req[r].write.target /\ e.status = "deleted"
  \/ \E x \in store.expenses : x.id = req[r].write.target /\ ~x.isActive

(* C29: a soft-deleted record stays as it is, deleted and with every     *)
(* field unchanged, in every step of every request; an update or delete  *)
(* whose lookup resolves after the deletion never reaches its save; and  *)
(* no summary and no export query sees the record.                       *)
C29_SoftDeleteTerminal ==
  [][/\ \A e \in store.trucks : e.status = "deleted" => e \in store'.trucks
     /\ \A x \in store.expenses : ~x.isActive => x \in store'.expenses
     /\ \A r \in Slots :
          (TargetDeleted(r) /\ req[r].pc \in {"t_find", "e_find"})
            => req'[r].pc \notin {"t_save", "e_save"}
     /\ \A i \in SummaryInputs :
          SummaryOf(store', i[1], i[2], i[3])
            = SummaryOf(Purged(store'), i[1], i[2], i[3])
     /\ TruckFind(store', DownloadFilters) = TruckFind(Purged(store'), DownloadFilters)
     /\ ExpenseFind(store', DownloadFilters)
          = ExpenseFind(Purged(store'), DownloadFilters)]_vars

(* C30: the result a summary call returns is the summary of one store *)
(* state that existed while the call was in flight.                   *)
C30_SnapshotConsistency ==
  \A r \in Slots :
    (req[r].kind = "summary" /\ req[r].returned)
      => \E st \in req[r].seen :
           req[r].summary =
             SummaryOf(st, req[r].data.startDate, req[r].data.endDate,
                       req[r].filters)

----------------------------------------------------------------------------
(* Properties of the report contents *)

BoundSpec(d) ==
  [organization |-> d.organization, startDate |-> d.startDate,
   endDate |-> d.endDate, format |-> d.format]

(* C6: two files sent for tokens with equal bound specs have the same rows *)
(* and summary, whatever the download requests carry.                      *)
C6_ReportFromBoundSpecOnly ==
  \A r1, r2 \in Slots :
    (FileSent(r1) /\ FileSent(r2)
       /\ BoundSpec(req[r1].data) = BoundSpec(req[r2].data))
      => (req[r1].file.rows = req[r2].file.rows
          /\ req[r1].file.summary = req[r2].file.summary)

C6_Witness ==
  \E r1, r2 \in Slots :
    /\ FileSent(r1) /\ FileSent(r2)
    /\ req[r1].token # req[r2].token
    /\ req[r1].queryOrg # req[r2].queryOrg
    /\ BoundSpec(req[r1].data) = BoundSpec(req[r2].data)
    /\ req[r1].file.rows # {}
    /\ req[r1].file.summary.totalEntries > 0

====
